---- MODULE Spec2Model ----
(***************************************************************************)
(* State-machine model of the shipping-rag-bot backend.  The repository    *)
(* holds four independent FastAPI applications, each deployed as its own   *)
(* process:                                                                *)
(*   "ask"        src/api/ask.py         question answering (RAG)          *)
(*   "ping"       src/api/ping.py        liveness endpoint                 *)
(*   "sync"       src/api/sync.py        storage upload / list, first take *)
(*   "sync_index" src/api/sync/index.py  storage upload / list, second take*)
(* A behaviour of the model is the life of ONE such process: svc is fixed  *)
(* in the initial state and never changes.                                 *)
(*                                                                         *)
(* Python values are modelled as strings; ABSENT is a missing dict key /   *)
(* unset environment variable, NONE is Python's None, "" is the empty      *)
(* string.  A dict is a record whose fields may hold ABSENT.               *)
(***************************************************************************)
EXTENDS Integers, Sequences, FiniteSets, TLC

VARIABLES svc, env, up, gmod, _client, _index, _storage_service, pc, bucket, lastResp

vars == <<svc, env, up, gmod, _client, _index, _storage_service, pc, bucket, lastResp>>

(* ------------------------------ bounds -------------------------------- *)
NThreads == 2
MaxK == 2
MaxPage == 2

Threads == 1..NThreads

(* --------------------------- Python values ---------------------------- *)
ABSENT == "<absent>"
NONE == "<none>"

Falsy(v) == v \in {ABSENT, NONE, ""}

\* a or b, on the string-valued model of Python values; a missing key reads
\* as None through dict.get
Or(a, b) == IF Falsy(a) THEN b ELSE a

\* dict.get(k) of a field that may be ABSENT: None when the key is missing
Get(v) == IF v = ABSENT THEN NONE ELSE v

\* dict.get(k, default)
GetDefault(v, d) == IF v = ABSENT THEN d ELSE v

(* ----------------------------- responses ------------------------------ *)
\* a request without parameters, or one whose parameters the handler never read
NoReq == "none"

\* No response was emitted by the last step.
NoResp == [op |-> "none"]

\* fastapi JSONResponse(status_code, content), together with what the handler
\* did to produce it: the external calls it issued (in order), the handles it
\* used and the configuration names it read.
JSONResponse(op, req, status, content, calls, used, reads) ==
  [op |-> op, req |-> req, status |-> status, content |-> content,
   calls |-> calls, used |-> used, reads |-> reads]

\* fastapi renders a raised HTTPException as {"detail": detail}
HTTPException(op, req, status, detail, calls, used, reads) ==
  JSONResponse(op, req, status, [detail |-> detail], calls, used, reads)

\* the handles a handler worked with; 0 is None
Handles(c, i, s) == [client |-> c, index |-> i, storage |-> s]

NoHandles == Handles(0, 0, 0)

PlainTextResponse(op, text, reads) ==
  [op |-> op, req |-> NoReq, status |-> 200, content |-> text,
   calls |-> <<>>, used |-> NoHandles, reads |-> reads]

(* ======================== src/api/ask.py ============================== *)
REQ_ENV == <<"OPENAI_API_KEY", "PINECONE_API_KEY", "PINECONE_INDEX_NAME", "PINECONE_HOST">>

AskEnvKeys == {REQ_ENV[i] : i \in 1..Len(REQ_ENV)}

\* os.getenv(k): None when unset
getenv(k) == Get(env[k])

\* a variant that tests for the variable being set (k not in os.environ)
MissingTestUnsetOnly(k) == env[k] = ABSENT

\* missing = [k for k in REQ_ENV if not os.getenv(k)]
MissingTest(k) == Falsy(getenv(k))

Missing == SelectSeq(REQ_ENV, MissingTest)

\* class Q: query min_length 1, top_k 1..50, max_tokens 64..2000
TopKMin == 1
TopKMax == 50
MinTokens == 64
MaxTokens == 2000

Bodies ==
  [query : {"q"}, top_k : TopKMin..(IF MaxK < TopKMax THEN MaxK ELSE TopKMax),
   max_tokens : {MinTokens, MaxTokens}]

\* ---- the matches an index can return
EmptyDict ==
  [isdict |-> TRUE, source |-> ABSENT, file |-> ABSENT, id |-> ABSENT,
   text |-> ABSENT, page |-> ABSENT]

NoDict == [EmptyDict EXCEPT !.isdict = FALSE]

M1 == [id |-> "v1", score |-> "0.9",
       metadata |-> [EmptyDict EXCEPT !.source = "doc1#0", !.text = "t1", !.page = "3"]]
M2 == [id |-> "v2", score |-> "0.5",
       metadata |-> [EmptyDict EXCEPT !.source = "", !.file = "f2.pdf", !.text = "t2"]]
M3 == [id |-> "v3", score |-> ABSENT, metadata |-> NoDict]

MatchUniverse == {M1, M2, M3}

Injective(s) == \A i, j \in DOMAIN s : s[i] = s[j] => i = j

\* the rankings of at most k distinct matches
MatchSeqs(k) ==
  {s \in UNION {[1..n -> MatchUniverse] : n \in 0..k} : Injective(s)}

\* what index.query can hand back: an object with a matches attribute (a
\* list or None), a dict (with or without the key), or something else
QueryResults(k) ==
  {[shape |-> "object", has |-> "none", list |-> <<>>],
   [shape |-> "dict", has |-> "absent", list |-> <<>>],
   [shape |-> "dict", has |-> "none", list |-> <<>>],
   [shape |-> "other", has |-> "absent", list |-> <<>>]}
  \cup [shape : {"object", "dict"}, has : {"list"}, list : MatchSeqs(k)]

Answers == {"answer-1", "answer-2"}

Outcomes(values) == [ok : {TRUE}, val : values] \cup {[ok |-> FALSE, val |-> "exception"]}

\* ---- helpers
\* md = m.get("metadata", {}) or {}
Md(m) == IF m.metadata.isdict THEN m.metadata ELSE EmptyDict

\* src = md.get("source") or md.get("file") or md.get("id") or ""
PromptLabel(m) == Or(Get(Md(m).source), Or(Get(Md(m).file), Or(Get(Md(m).id), "")))

\* a variant numbering the blocks from 0 (enumerate without start=1)
CtxBlockFromZero(i, m) == [n |-> i - 1, src |-> PromptLabel(m), txt |-> Or(Get(Md(m).text), "")]

\* f"[{i}] {src}\n{txt}", txt = md.get("text") or ""
CtxBlock(i, m) == [n |-> i, src |-> PromptLabel(m), txt |-> Or(Get(Md(m).text), "")]

build_prompt(question, matches) ==
  [header |-> "header", question |-> question,
   ctx_blocks |-> [i \in 1..Len(matches) |-> CtxBlock(i, matches[i])]]

SourceEntry(m) ==
  [score |-> GetDefault(m.score, "0.0"),
   id |-> Get(m.id),
   source |-> Or(Get(Md(m).source), Or(Get(Md(m).file), Get(Md(m).id))),
   page |-> Get(Md(m).page),
   text |-> Get(Md(m).text)]

\* a variant that lists the sources best-last
SourcesPayloadReversed(matches) ==
  [i \in 1..Len(matches) |-> SourceEntry(matches[Len(matches) + 1 - i])]

SourcesPayload(matches) == [i \in 1..Len(matches) |-> SourceEntry(matches[i])]

\* ask.py 83-86: the match list taken out of the query result; isNone tells
\* a None from a list
ExtractMatches(res) ==
  IF res.shape = "object"
  THEN [isNone |-> FALSE, items |-> IF res.has = "list" THEN res.list ELSE <<>>]
  ELSE IF res.shape = "dict"
  THEN IF res.has = "absent" THEN [isNone |-> FALSE, items |-> <<>>]
       ELSE IF res.has = "none" THEN [isNone |-> TRUE, items |-> <<>>]
       ELSE [isNone |-> FALSE, items |-> res.list]
  ELSE [isNone |-> FALSE, items |-> <<>>]

\* a variant that tells an empty list only: a None is taken for matches
NotMatchesLenOnly(mm) == ~mm.isNone /\ mm.items = <<>>

\* not matches
NotMatches(mm) == mm.isNone \/ mm.items = <<>>

\* the answer of line 89, a Korean sentence saying "no relevant material"
NO_DATA == "no-relevant-material"

Call(api, args, out) == [api |-> api, args |-> args, ok |-> out.ok, result |-> out.val]

\* a variant that forgets status_code=500
Error500DefaultStatus(body, api, calls, used) ==
  JSONResponse("ask", body, 200, [error |-> api, trace |-> "traceback"], calls, used, AskEnvKeys)

\* a variant that answers a failure in the shape of an answer
Error500AsAnswer(body, api, calls, used) ==
  JSONResponse("ask", body, 500, [answer |-> NONE, sources |-> <<>>, error |-> api],
               calls, used, AskEnvKeys)

\* except Exception as e: JSONResponse(500, {"error": str(e), "trace": tb})
Error500(body, api, calls, used) ==
  JSONResponse("ask", body, 500, [error |-> api, trace |-> "traceback"], calls, used, AskEnvKeys)

\* ask.py 77-114, after get_services returned: e, q, l are what the
\* embedding call, the index query and the model call do when issued
AskBody(body, used, e, q, l) ==
  LET c1 == <<Call("embed", body.query, e)>>
      c2 == c1 \o <<Call("query", [vector |-> e.val, top_k |-> body.top_k,
                                   include_metadata |-> TRUE], q)>>
      mm == ExtractMatches(q.val)
      prompt == build_prompt(body.query, mm.items)
      c3 == c2 \o <<Call("llm", [prompt |-> prompt, max_tokens |-> body.max_tokens], l)>>
  IN  IF ~e.ok THEN Error500(body, "embed", c1, used)
      ELSE IF ~q.ok THEN Error500(body, "query", c2, used)
      ELSE IF NotMatches(mm)
      THEN JSONResponse("ask", body, 200, [answer |-> NO_DATA, sources |-> <<>>],
                        c2, used, AskEnvKeys)
      ELSE IF ~l.ok THEN Error500(body, "llm", c3, used)
      ELSE JSONResponse("ask", body, 200,
                        [answer |-> l.val, sources |-> SourcesPayload(mm.items)],
                        c3, used, AskEnvKeys)

\* a request in flight (in ask.py every request runs in a thread of the
\* pool, ask being a plain function): where it stands, the operation it serves and the handle
\* it holds in a local variable (0: none)
Idle == [at |-> "idle", op |-> "none", h |-> 0]

At(t, where) == [pc EXCEPT ![t] = [at |-> where, op |-> "ask", h |-> 0]]

\* the response of the previous step has been written out
Quiet == lastResp = NoResp

\* a variant of the health check that looks at the configuration
pingChecksEnv ==
  IF Missing # <<>>
  THEN HTTPException("health", NoReq, 503, <<"Missing env">> \o Missing, <<>>, NoHandles, AskEnvKeys)
  ELSE PlainTextResponse("health", "ok", AskEnvKeys)

\* @app.get("/") def ping
ping == PlainTextResponse("health", "ok", {})

\* a request arrives: get_services checks the environment (28-31)
AskBegin(t) ==
  /\ svc = "ask" /\ up /\ Quiet /\ pc[t].at = "idle"
  /\ IF Missing # <<>>
     THEN /\ lastResp' = HTTPException("ask", NoReq, 503, <<"Missing env">> \o Missing,
                                       <<>>, NoHandles, AskEnvKeys)
          /\ pc' = pc
     ELSE /\ lastResp' = NoResp
          /\ pc' = At(t, "L34")
  /\ UNCHANGED <<svc, env, up, gmod, _client, _index, _storage_service, bucket>>

\* if _client is None
AskL34(t) ==
  /\ svc = "ask" /\ Quiet /\ pc[t].at = "L34"
  /\ pc' = At(t, IF _client = 0 THEN "L35" ELSE "L36")
  /\ lastResp' = NoResp
  /\ UNCHANGED <<svc, env, up, gmod, _client, _index, _storage_service, bucket>>

\* _client = OpenAI(...): every construction yields a new handle
AskL35(t) ==
  /\ svc = "ask" /\ Quiet /\ pc[t].at = "L35"
  /\ _client' = _client + 1
  /\ pc' = At(t, "L36")
  /\ lastResp' = NoResp
  /\ UNCHANGED <<svc, env, up, gmod, _index, _storage_service, bucket>>

\* if _index is None
AskL36(t) ==
  /\ svc = "ask" /\ Quiet /\ pc[t].at = "L36"
  /\ pc' = At(t, IF _index = 0 THEN "L37" ELSE "L45")
  /\ lastResp' = NoResp
  /\ UNCHANGED <<svc, env, up, gmod, _client, _index, _storage_service, bucket>>

\* pc.Index(name, host=host): a PineconeException becomes a 503, and _index
\* stays None
AskL37(t) ==
  /\ svc = "ask" /\ Quiet /\ pc[t].at = "L37"
  /\ \E ok \in BOOLEAN :
       IF ok
       THEN /\ _index' = _index + 1
            /\ pc' = At(t, "L45")
            /\ lastResp' = NoResp
       ELSE /\ _index' = _index
            /\ pc' = [pc EXCEPT ![t] = Idle]
            /\ lastResp' = HTTPException("ask", NoReq, 503, <<"Pinecone error", "PineconeException">>,
                                         <<>>, Handles(_client, 0, 0), AskEnvKeys)
  /\ UNCHANGED <<svc, env, up, gmod, _client, _storage_service, bucket>>

\* return _client, _index, and the rest of ask (77-120)
AskL45(t) ==
  /\ svc = "ask" /\ Quiet /\ pc[t].at = "L45"
  /\ \E body \in Bodies :
       \E e \in Outcomes({"vec"}), q \in Outcomes(QueryResults(body.top_k)),
          l \in Outcomes(Answers) :
         lastResp' = AskBody(body, Handles(_client, _index, 0), e, q, l)
  /\ pc' = [pc EXCEPT ![t] = Idle]
  /\ UNCHANGED <<svc, env, up, gmod, _client, _index, _storage_service, bucket>>

\* GET / is served
AskPing ==
  /\ svc = "ask" /\ up /\ Quiet
  /\ lastResp' = ping
  /\ UNCHANGED <<svc, env, up, gmod, _client, _index, _storage_service, pc, bucket>>

EnvVals == {ABSENT, "", "v"}

\* the deployment changes a variable of the process environment; the
\* handlers read the environment only when a request arrives (AskBegin), so
\* a change commutes with every step of a request in flight and is taken
\* between requests
EnvChange ==
  /\ svc = "ask" /\ Quiet
  /\ \A t \in Threads : pc[t].at = "idle"
  /\ \E k \in DOMAIN env, v \in EnvVals : env' = [env EXCEPT ![k] = v]
  /\ lastResp' = NoResp
  /\ UNCHANGED <<svc, up, gmod, _client, _index, _storage_service, pc, bucket>>


(* ======================== src/api/ping.py ============================= *)
ping_root == PlainTextResponse("health", "ok", {})

ping_wildcard(path) == PlainTextResponse("health", "ok", {})

PingRoot ==
  /\ svc = "ping" /\ up /\ Quiet
  /\ lastResp' = ping_root
  /\ UNCHANGED <<svc, env, up, gmod, _client, _index, _storage_service, pc, bucket>>

PingWildcard ==
  /\ svc = "ping" /\ up /\ Quiet
  /\ \E path \in {"ping", "ping/a/b"} : lastResp' = ping_wildcard(path)
  /\ UNCHANGED <<svc, env, up, gmod, _client, _index, _storage_service, pc, bucket>>

(* ===================== the storage bucket ============================= *)
\* Object names are sequences of tokens, so that prefixes and trailing
\* slashes can be inspected.
PREFIX == <<"user-uploads", "/">>

\* the objects that can live under the prefix, in the order the storage
\* service lists them: the folder placeholder, two files, a sub-folder
\* placeholder
ObjUniverse ==
  <<PREFIX, PREFIX \o <<"a.txt">>, PREFIX \o <<"b.pdf">>, PREFIX \o <<"sub", "/">>>>

Filenames == {<<"a.txt">>, <<"b.pdf">>}

\* objects().list(bucket, prefix): the objects under the prefix, in order
Listing(b) == SelectSeq(ObjUniverse, LAMBDA n : n \in b)

\* The service answers in pages of at most p objects; an empty listing is a
\* single page without items.
RECURSIVE Pages(_, _)
Pages(objs, p) ==
  IF Len(objs) <= p THEN <<objs>>
  ELSE <<SubSeq(objs, 1, p)>> \o Pages(SubSeq(objs, p + 1, Len(objs)), p)

\* name.replace('user-uploads/', '', 1)
RECURSIVE Replace1(_)
Replace1(name) ==
  IF Len(name) < Len(PREFIX) THEN name
  ELSE IF SubSeq(name, 1, Len(PREFIX)) = PREFIX
       THEN SubSeq(name, Len(PREFIX) + 1, Len(name))
       ELSE <<Head(name)>> \o Replace1(Tail(name))

\* name.endswith("/")
EndsWithSlash(name) == name # <<>> /\ name[Len(name)] = "/"

\* f"https://storage.googleapis.com/{bucket}/{object_name}"
_public_url(bkt, object_name) == [host |-> "storage.googleapis.com", bucket |-> bkt, object |-> object_name]

(* ======================== src/api/sync.py ============================= *)
\* sync.py 24-43: credentials is None unless GOOGLE_CREDENTIALS is set, is
\* JSON and is accepted as service-account info
SyncCredentials(v) == IF v = "valid" THEN "creds" ELSE NONE

SyncCredVals == {ABSENT, "", "not-json", "bad-info", "valid"}

BucketVals == {ABSENT, "", "bkt"}

\* the module-level globals of sync.py after import
SyncImport(e) ==
  [GCS_BUCKET_NAME |-> Get(e.GCS_BUCKET_NAME),
   credentials |-> SyncCredentials(e.GOOGLE_CREDENTIALS)]

SyncReads == {"GCS_BUCKET_NAME", "GOOGLE_CREDENTIALS"}

SyncFailed(op, req, status, message, calls) ==
  JSONResponse(op, req, status, [status |-> "Failed", message |-> message],
               calls, NoHandles, SyncReads)

MaxResults == 100

PageSizes(maxResults) == 1..(IF MaxPage < maxResults THEN MaxPage ELSE maxResults)

\* sync.py 129-144: the entries of one page; only the prefix itself is left out
SyncFileList(items) ==
  LET keep == SelectSeq(items, LAMBDA n : Replace1(n) # <<>>)
  IN  [i \in 1..Len(keep) |->
         [name |-> Replace1(keep[i]), url |-> _public_url(gmod.GCS_BUCKET_NAME, keep[i])]]

\* sync.py 96-160; p is the page size the service answers with, buildOk and
\* listOk tell whether build() and execute() succeed
list_files_in_gcs(p, buildOk, listOk) ==
  LET pages == Pages(Listing(bucket), p)
      call == Call("list", [bucket |-> gmod.GCS_BUCKET_NAME, prefix |-> PREFIX,
                            maxResults |-> MaxResults],
                   [ok |-> listOk, val |-> IF listOk THEN pages[1] ELSE <<>>])
      file_list == SyncFileList(pages[1])
  IN  IF Falsy(gmod.GCS_BUCKET_NAME) \/ gmod.credentials = NONE
      THEN SyncFailed("list", NoReq, 500, "not properly set", <<>>)
      ELSE IF ~buildOk THEN SyncFailed("list", NoReq, 500, "Failed to build Storage service", <<>>)
      ELSE IF ~listOk THEN SyncFailed("list", NoReq, 500, "Error listing files", <<call>>)
      ELSE JSONResponse("list", NoReq, 200,
                        [status |-> "Success", bucket |-> gmod.GCS_BUCKET_NAME,
                         count |-> Len(file_list), files |-> file_list],
                        <<call>>, NoHandles, SyncReads)

\* sync.py 51-90; the service object handed in was built, so the test of
\* line 59 passes
Sync_create_and_upload_object(bucket_name, object_name, insOk) ==
  LET gcs_path == PREFIX \o object_name
      call == Call("insert", [bucket |-> bucket_name, name |-> gcs_path, predefinedAcl |-> ABSENT],
                   [ok |-> insOk, val |-> gcs_path])
  IN  IF Falsy(bucket_name)
      THEN [name |-> object_name, status |-> "Failed", error |-> "GCS_BUCKET_NAME not set",
            calls |-> <<>>]
      ELSE IF ~insOk
      THEN [name |-> object_name, status |-> "Failed", error |-> "exception", calls |-> <<call>>]
      ELSE [name |-> object_name, status |-> "Success", bucket |-> bucket_name,
            url |-> _public_url(bucket_name, gcs_path), calls |-> <<call>>]

\* sync.py 166-223
Sync_upload_file_to_gcs(file_name, buildOk, readOk, insOk) ==
  LET r == Sync_create_and_upload_object(gmod.GCS_BUCKET_NAME, file_name, insOk)
  IN  IF gmod.credentials = NONE
      THEN SyncFailed("upload", file_name, 500, "credentials are not valid", <<>>)
      ELSE IF ~buildOk THEN SyncFailed("upload", file_name, 500, "Failed to build Storage service", <<>>)
      ELSE IF ~readOk THEN SyncFailed("upload", file_name, 400, "Failed to read uploaded file", <<>>)
      ELSE IF r.status = "Success"
      THEN JSONResponse("upload", file_name, 200,
                        [status |-> "Success", message |-> "uploaded",
                         file_info |-> [name |-> r.name, status |-> r.status,
                                        bucket |-> r.bucket, url |-> r.url]],
                        r.calls, NoHandles, SyncReads)
      ELSE JSONResponse("upload", file_name, 500,
                        [status |-> "Failed", message |-> "Upload failed",
                         error_details |-> r.error],
                        r.calls, NoHandles, SyncReads)

\* sync.py 229-232
check_status ==
  JSONResponse("health", NoReq, 200,
               [status |-> "ready", target_bucket |-> Or(gmod.GCS_BUCKET_NAME, "Not Set")],
               <<>>, NoHandles, {"GCS_BUCKET_NAME"})

\* the objects of the bucket after the calls of a response
Stored(b, calls) ==
  b \cup {calls[i].args.name : i \in {j \in DOMAIN calls : calls[j].api = "insert" /\ calls[j].ok}}

SyncList ==
  /\ svc = "sync" /\ up /\ Quiet
  /\ \E p \in PageSizes(MaxResults), buildOk \in BOOLEAN, listOk \in BOOLEAN :
       lastResp' = list_files_in_gcs(p, buildOk, listOk)
  /\ UNCHANGED <<svc, env, up, gmod, _client, _index, _storage_service, pc, bucket>>

SyncUpload ==
  /\ svc = "sync" /\ up /\ Quiet
  /\ \E f \in Filenames, buildOk \in BOOLEAN, readOk \in BOOLEAN, insOk \in BOOLEAN :
       /\ lastResp' = Sync_upload_file_to_gcs(f, buildOk, readOk, insOk)
       /\ bucket' = Stored(bucket, lastResp'.calls)
  /\ UNCHANGED <<svc, env, up, gmod, _client, _index, _storage_service, pc>>

SyncCheckStatus ==
  /\ svc = "sync" /\ up /\ Quiet
  /\ lastResp' = check_status
  /\ UNCHANGED <<svc, env, up, gmod, _client, _index, _storage_service, pc, bucket>>

(* ====================== src/api/sync/index.py ========================= *)
IndexCredVals == {ABSENT, "not-json", "valid"}

\* index.py 11-12: the module-level globals after import
IndexImport(e) ==
  [BUCKET_NAME |-> Or(Get(e.GCS_BUCKET), Get(e.GCS_BUCKET_NAME)),
   CREDS_JSON_STR |-> Or(Get(e.GOOGLE_APPLICATION_CREDENTIALS_JSON), Get(e.GOOGLE_CREDENTIALS))]

\* index.py 15-18: import raises RuntimeError when either is missing
IndexStarts(g) == ~Falsy(g.BUCKET_NAME) /\ ~Falsy(g.CREDS_JSON_STR)

IndexReads == {"BUCKET_NAME", "CREDS_JSON_STR"}

\* JSONResponse(status_code, {"status": "Error", "message": ...})
IndexError(op, req, status, message, calls, h) ==
  JSONResponse(op, req, status, [status |-> "Error", message |-> message],
               calls, Handles(0, 0, h), IndexReads)

TS == "2024-01-01T00:00:00.000Z"

\* index.py 35-38: the timestamp re-rendered in UTC; a zero fraction is dropped
_to_iso_utc(ts_str) == IF ts_str = TS THEN "2024-01-01T00:00:00Z" ELSE ts_str

\* int(resp.get("size", 0))
IntOf(v) == IF v = ABSENT THEN 0 ELSE IF v = "12" THEN 12 ELSE -1

\* what a successful insert answers
InsertResults(object_name) ==
  [name : {object_name}, contentType : {"text/plain"}, size : {ABSENT, "12"},
   updated : {ABSENT, TS}]

\* a variant whose second attempt keeps the public-read ACL
Index_create_and_upload_object_SameAcl(filename, i1, i2) ==
  LET object_name == PREFIX \o filename
      c1 == <<Call("insert", [bucket |-> gmod.BUCKET_NAME, name |-> object_name,
                              predefinedAcl |-> "publicRead"],
                   i1)>>
      c2 == c1 \o <<Call("insert", [bucket |-> gmod.BUCKET_NAME, name |-> object_name,
                                    predefinedAcl |-> "publicRead"],
                         i2)>>
      resp == IF i1.ok THEN i1.val ELSE i2.val
      info == [name |-> Get(resp.name),
               mimeType |-> resp.contentType,
               size |-> IntOf(resp.size),
               updated |-> IF Falsy(resp.updated) THEN NONE ELSE _to_iso_utc(resp.updated),
               url |-> _public_url(gmod.BUCKET_NAME, object_name)]
  IN  IF i1.ok THEN [raised |-> FALSE, info |-> info, calls |-> c1]
      ELSE IF i2.ok THEN [raised |-> FALSE, info |-> info, calls |-> c2]
      ELSE [raised |-> TRUE, info |-> "GCS upload failed", calls |-> c2]

\* index.py 49-69; i1 and i2 are what the first and the second insert do
\* when issued.  A failed second insert raises HTTPException(500).
Index_create_and_upload_object(filename, i1, i2) ==
  LET object_name == PREFIX \o filename
      c1 == <<Call("insert", [bucket |-> gmod.BUCKET_NAME, name |-> object_name,
                              predefinedAcl |-> "publicRead"],
                   i1)>>
      c2 == c1 \o <<Call("insert", [bucket |-> gmod.BUCKET_NAME, name |-> object_name,
                                    predefinedAcl |-> ABSENT],
                         i2)>>
      resp == IF i1.ok THEN i1.val ELSE i2.val
      info == [name |-> Get(resp.name),
               mimeType |-> resp.contentType,
               size |-> IntOf(resp.size),
               updated |-> IF Falsy(resp.updated) THEN NONE ELSE _to_iso_utc(resp.updated),
               url |-> _public_url(gmod.BUCKET_NAME, object_name)]
  IN  IF i1.ok THEN [raised |-> FALSE, info |-> info, calls |-> c1]
      ELSE IF i2.ok THEN [raised |-> FALSE, info |-> info, calls |-> c2]
      ELSE [raised |-> TRUE, info |-> "GCS upload failed", calls |-> c2]

\* index.py 104-117, after file.read() returned and get_storage_service
\* handed out handle h
Index_upload_file_to_gcs(filename, h, i1, i2) ==
  LET r == Index_create_and_upload_object(filename, i1, i2)
  IN  IF r.raised
      THEN IndexError("upload", filename, 500, r.info, r.calls, h)
      ELSE JSONResponse("upload", filename, 200,
                        [status |-> "Success", message |-> filename, file |-> r.info],
                        r.calls, Handles(0, 0, h), IndexReads)

\* index.py 77-89: the entries of one page; empty names and names ending in
\* "/" are skipped
IndexEntries(items) ==
  LET keep == SelectSeq(items, LAMBDA n : ~(n = <<>> \/ EndsWithSlash(n)))
  IN  [i \in 1..Len(keep) |->
         [name |-> Replace1(keep[i]), public_url |-> _public_url(gmod.BUCKET_NAME, keep[i])]]

ListCall(pages, i, ok) ==
  Call("list", [bucket |-> gmod.BUCKET_NAME, prefix |-> PREFIX, page |-> i],
       [ok |-> ok, val |-> IF ok THEN pages[i] ELSE <<>>])

\* index.py 71-91: the loop over the pages.  req is the i-th request (None
\* once i passes the last page: list_next finds no token); failAt is the
\* request whose execute() raises (0: none does)
RECURSIVE list_objects_in_gcs(_, _, _, _, _)
list_objects_in_gcs(pages, i, failAt, items, calls) ==
  IF i > Len(pages) THEN [raised |-> FALSE, items |-> items, calls |-> calls]
  ELSE IF i = failAt
  THEN [raised |-> TRUE, items |-> items, calls |-> calls \o <<ListCall(pages, i, FALSE)>>]
  ELSE list_objects_in_gcs(pages, i + 1, failAt, items \o IndexEntries(pages[i]),
                           calls \o <<ListCall(pages, i, TRUE)>>)

\* index.py 119-127
list_files(h, p, failAt) ==
  LET r == list_objects_in_gcs(Pages(Listing(bucket), p), 1, failAt, <<>>, <<>>)
  IN  IF r.raised THEN IndexError("list", NoReq, 500, "server error", r.calls, h)
      ELSE JSONResponse("list", NoReq, 200,
                        [status |-> "Success", bucket |-> gmod.BUCKET_NAME,
                         count |-> Len(r.items), files |-> r.items],
                        r.calls, Handles(0, 0, h), IndexReads)

\* index.py 93-102
home ==
  JSONResponse("health", NoReq, 200, [message |-> "GCS Sync API ready.", bucket |-> gmod.BUCKET_NAME],
               <<>>, NoHandles, {"BUCKET_NAME"})

\* get_storage_service, line 24: a handle that is there is handed out
GetStorage(t, op) ==
  [pc EXCEPT ![t] = IF _storage_service # 0 THEN [at |-> "run", op |-> op, h |-> _storage_service]
                    ELSE [at |-> "L26", op |-> op, h |-> 0]]

\* POST / arrives: file.read(), then create_and_upload_object enters
\* get_storage_service.  The endpoint is a coroutine: after the await of
\* file.read() it runs on the event loop without yielding, so the uploads
\* follow one another, while the listings (plain functions, run in the
\* thread pool) interleave with them and with each other.
IndexUploadBegin(t) ==
  /\ svc = "sync_index" /\ up /\ Quiet /\ pc[t].at = "idle"
  /\ \A u \in Threads : pc[u].op # "upload"
  /\ \E readOk \in BOOLEAN :
       IF readOk
       THEN /\ pc' = GetStorage(t, "upload")
            /\ lastResp' = NoResp
       ELSE /\ pc' = pc
            /\ lastResp' = IndexError("upload", NoReq, 500, "server error", <<>>, 0)
  /\ UNCHANGED <<svc, env, up, gmod, _client, _index, _storage_service, bucket>>

\* GET /list arrives: list_objects_in_gcs enters get_storage_service
IndexListBegin(t) ==
  /\ svc = "sync_index" /\ up /\ Quiet /\ pc[t].at = "idle"
  /\ pc' = GetStorage(t, "list")
  /\ lastResp' = NoResp
  /\ UNCHANGED <<svc, env, up, gmod, _client, _index, _storage_service, bucket>>

\* get_storage_service, lines 26-31: parse the credentials, build the
\* service, store it in _storage_service; an exception ends the request
IndexL26(t) ==
  /\ svc = "sync_index" /\ Quiet /\ pc[t].at = "L26"
  /\ \E buildOk \in BOOLEAN :
       IF gmod.CREDS_JSON_STR = "valid" /\ buildOk
       THEN /\ _storage_service' = _storage_service + 1
            /\ pc' = [pc EXCEPT ![t] = [at |-> "run", op |-> pc[t].op, h |-> _storage_service + 1]]
            /\ lastResp' = NoResp
       ELSE /\ _storage_service' = _storage_service
            /\ pc' = [pc EXCEPT ![t] = Idle]
            /\ lastResp' = IndexError(pc[t].op, NoReq, 500, "server error", <<>>, 0)
  /\ UNCHANGED <<svc, env, up, gmod, _client, _index, bucket>>

IndexUploadRun(t) ==
  /\ svc = "sync_index" /\ Quiet /\ pc[t].at = "run" /\ pc[t].op = "upload"
  /\ \E f \in Filenames :
       \E i1 \in Outcomes(InsertResults(PREFIX \o f)),
          i2 \in Outcomes(InsertResults(PREFIX \o f)) :
         /\ lastResp' = Index_upload_file_to_gcs(f, pc[t].h, i1, i2)
         /\ bucket' = Stored(bucket, lastResp'.calls)
  /\ pc' = [pc EXCEPT ![t] = Idle]
  /\ UNCHANGED <<svc, env, up, gmod, _client, _index, _storage_service>>

IndexListRun(t) ==
  /\ svc = "sync_index" /\ Quiet /\ pc[t].at = "run" /\ pc[t].op = "list"
  /\ \E p \in 1..MaxPage :
       \E failAt \in 0..Len(Pages(Listing(bucket), p)) :
         lastResp' = list_files(pc[t].h, p, failAt)
  /\ pc' = [pc EXCEPT ![t] = Idle]
  /\ UNCHANGED <<svc, env, up, gmod, _client, _index, _storage_service, bucket>>

IndexHome ==
  /\ svc = "sync_index" /\ up /\ Quiet
  /\ lastResp' = home
  /\ UNCHANGED <<svc, env, up, gmod, _client, _index, _storage_service, pc, bucket>>

(* ======================= specification ================================ *)
\* the response of the last step is written out
Flush ==
  /\ ~Quiet
  /\ lastResp' = NoResp
  /\ UNCHANGED <<svc, env, up, gmod, _client, _index, _storage_service, pc, bucket>>

InitAsk ==
  /\ svc = "ask"
  /\ env \in [AskEnvKeys -> EnvVals]
  /\ up = TRUE
  /\ gmod = <<>>
  /\ bucket = {}

InitPing ==
  /\ svc = "ping"
  /\ env = <<>>
  /\ up = TRUE
  /\ gmod = <<>>
  /\ bucket = {}

Buckets == SUBSET {ObjUniverse[i] : i \in DOMAIN ObjUniverse}

\* sync.py reads the environment at import only
InitSync ==
  /\ svc = "sync"
  /\ env = <<>>
  /\ up = TRUE
  /\ \E e \in [GCS_BUCKET_NAME : BucketVals, GOOGLE_CREDENTIALS : SyncCredVals] :
       gmod = SyncImport(e)
  /\ bucket \in Buckets

\* index.py reads the environment at import only, and import fails when a
\* value is missing
InitIndex ==
  /\ svc = "sync_index"
  /\ env = <<>>
  /\ \E e \in [GCS_BUCKET : BucketVals, GCS_BUCKET_NAME : BucketVals,
               GOOGLE_APPLICATION_CREDENTIALS_JSON : IndexCredVals,
               GOOGLE_CREDENTIALS : IndexCredVals] :
       /\ gmod = IndexImport(e)
       /\ up = IndexStarts(gmod)
  /\ bucket \in Buckets

Init ==
  /\ InitAsk \/ InitPing \/ InitSync \/ InitIndex
  /\ _client = 0 /\ _index = 0 /\ _storage_service = 0
  /\ pc = [t \in Threads |-> Idle]
  /\ lastResp = NoResp

Next ==
  \/ Flush
  \/ EnvChange
  \/ AskPing
  \/ \E t \in Threads :
       \/ AskBegin(t) \/ AskL34(t) \/ AskL35(t) \/ AskL36(t) \/ AskL37(t) \/ AskL45(t)
  \/ PingRoot \/ PingWildcard
  \/ SyncList \/ SyncUpload \/ SyncCheckStatus
  \/ IndexHome
  \/ \E t \in Threads :
       \/ IndexUploadBegin(t) \/ IndexListBegin(t) \/ IndexL26(t)
       \/ IndexUploadRun(t) \/ IndexListRun(t)

Spec == Init /\ [][Next]_vars

(* ============================ properties ============================== *)
IsAsk == lastResp.op = "ask"

\* the query of an ask response was issued and answered
Queried == IsAsk /\ Len(lastResp.calls) >= 2 /\ lastResp.calls[2].ok

\* the matches the index returned (none when the list is empty or missing)
Returned == IF lastResp.calls[2].result.has = "list" THEN lastResp.calls[2].result.list ELSE <<>>

Apis == [i \in DOMAIN lastResp.calls |-> lastResp.calls[i].api]

\* what the three matches of MatchUniverse say, read off their literals
LabelOf(id) == IF id = "v1" THEN "doc1#0" ELSE IF id = "v2" THEN "f2.pdf" ELSE NONE

TextOf(id) == IF id = "v1" THEN "t1" ELSE IF id = "v2" THEN "t2" ELSE NONE

PageOf(id) == IF id = "v1" THEN "3" ELSE NONE

ScoreOf(id) == IF id = "v1" THEN "0.9" ELSE IF id = "v2" THEN "0.5" ELSE "0.0"

Blank(v) == IF v = NONE THEN "" ELSE v

\* C1: an ask request whose index query returns zero matches (an empty or
\* missing match list) ends in a 200 response with the no-data sentinel as
\* answer and an empty source list, and the language model is not called.
C1_ZeroMatchesNoData ==
  (Queried /\ Returned = <<>>) =>
    /\ lastResp.status = 200
    /\ lastResp.content = [answer |-> NO_DATA, sources |-> <<>>]
    /\ Apis = <<"embed", "query">>

C1_Witness ==
  /\ Queried /\ Returned = <<>> /\ lastResp.status = 200
  /\ lastResp.calls[2].result.shape = "dict" /\ lastResp.calls[2].result.has = "none"

\* C2: for a non-empty match sequence of length n the prompt holds exactly n
\* context blocks numbered 1..n, block i carrying the source label and the
\* text of the i-th returned match, in the index's order.
C2_PromptBlocksInOrder ==
  (IsAsk /\ Len(lastResp.calls) = 3) =>
    LET blocks == lastResp.calls[3].args.prompt.ctx_blocks
    IN  /\ Returned # <<>>
        /\ Len(blocks) = Len(Returned)
        /\ \A i \in 1..Len(Returned) :
             blocks[i] = [n |-> i, src |-> Blank(LabelOf(Returned[i].id)),
                          txt |-> Blank(TextOf(Returned[i].id))]

C2_Witness ==
  /\ IsAsk /\ Len(lastResp.calls) = 3 /\ Len(Returned) >= 2
  /\ Returned[1].id = "v3" /\ Returned[2].id = "v2"

\* C3: a failure of the embedding call, the index query or the model call
\* ends the request in a 500 response carrying a diagnostic; each of the
\* three calls is issued at most once, in order, and none after a failure.
C3_FailureIs500NoRetry ==
  IsAsk =>
    LET n == Len(lastResp.calls)
    IN  /\ Apis = SubSeq(<<"embed", "query", "llm">>, 1, n)
        /\ \A i \in 1..(n - 1) : lastResp.calls[i].ok
        /\ (n > 0 /\ ~lastResp.calls[n].ok) =>
             (lastResp.status = 500 /\ "error" \in DOMAIN lastResp.content)

C3_Witness ==
  /\ IsAsk /\ Len(lastResp.calls) = 3 /\ ~lastResp.calls[3].ok /\ lastResp.status = 500

\* C4: every response of ask is either a normal answer (200, fields answer
\* and sources) or an error object (500 with an error field, 503 with a
\* detail); a failed request carries no answer field, a successful one no
\* error field.
C4_TwoDisjointShapes ==
  IsAsk =>
    \/ /\ lastResp.status = 200
       /\ DOMAIN lastResp.content = {"answer", "sources"}
       /\ \A i \in DOMAIN lastResp.calls : lastResp.calls[i].ok
    \/ /\ lastResp.status = 500
       /\ "error" \in DOMAIN lastResp.content
       /\ "answer" \notin DOMAIN lastResp.content
    \/ /\ lastResp.status = 503
       /\ DOMAIN lastResp.content = {"detail"}

C4_Witness ==
  /\ IsAsk /\ lastResp.status = 503 /\ lastResp.content.detail[1] = "Pinecone error"

\* C8: a successful ask request with n >= 1 matches called the model exactly
\* once, with the prompt built from the request's question and those matches
\* and with the request's max_tokens; the answer is the model's text and the
\* sources are the n matches in the index's order (score, id, source label,
\* page, text).
C8_AnswerAndSources ==
  (Queried /\ Returned # <<>> /\ lastResp.status = 200) =>
    /\ Apis = <<"embed", "query", "llm">>
    /\ lastResp.calls[3].args.max_tokens = lastResp.req.max_tokens
    /\ lastResp.calls[3].args.prompt.question = lastResp.req.query
    /\ Len(lastResp.calls[3].args.prompt.ctx_blocks) = Len(Returned)
    /\ lastResp.content.answer = lastResp.calls[3].result
    /\ Len(lastResp.content.sources) = Len(Returned)
    /\ \A i \in 1..Len(Returned) :
         LET id == Returned[i].id
         IN  lastResp.content.sources[i] =
               [score |-> ScoreOf(id), id |-> id, source |-> LabelOf(id),
                page |-> PageOf(id), text |-> TextOf(id)]

C8_Witness ==
  /\ Queried /\ Len(Returned) >= 2 /\ lastResp.status = 200
  /\ lastResp.content.answer = "answer-2" /\ lastResp.req.max_tokens = MaxTokens
  /\ Returned[1].id = "v2"

IsHealth == lastResp.op = "health"

\* C5 as stated: the health check succeeds in every reachable state, reads
\* no configuration, issues no external call and leaves the cached handles
\* unchanged.
C5_HealthReadsNoConfig ==
  [][lastResp'.op = "health" =>
       /\ lastResp'.status = 200
       /\ lastResp'.reads = {}
       /\ lastResp'.calls = <<>>
       /\ UNCHANGED <<_client, _index, _storage_service>>]_vars

\* C5 as amended: the health check succeeds (200) in every reachable state,
\* issues no external call and leaves the cached handles unchanged; the
\* health checks of ask.py and ping.py read no configuration and answer
\* "ok", those of the sync services read nothing but the bucket name taken
\* at import, which they report.
C5_HealthAlwaysSucceeds ==
  [][lastResp'.op = "health" =>
       /\ lastResp'.status = 200
       /\ lastResp'.calls = <<>>
       /\ UNCHANGED <<_client, _index, _storage_service>>
       /\ svc \in {"ask", "ping"} => (lastResp'.reads = {} /\ lastResp'.content = "ok")
       /\ svc = "sync" => lastResp'.reads = {"GCS_BUCKET_NAME"}
       /\ svc = "sync_index" => lastResp'.reads = {"BUCKET_NAME"}]_vars

C5_Witness ==
  /\ IsHealth /\ svc = "ask" /\ lastResp.status = 200
  /\ env["PINECONE_HOST"] = ABSENT /\ _client # 0 /\ _index # 0

\* a required configuration value is missing (unset or empty; for sync.py
\* also credentials that could not be loaded)
ConfigMissing ==
  CASE svc = "ask" -> \E k \in DOMAIN env : env[k] \in {ABSENT, ""}
    [] svc = "sync" -> gmod.GCS_BUCKET_NAME \in {NONE, ""} \/ gmod.credentials = NONE
    [] svc = "sync_index" ->
         gmod.BUCKET_NAME \in {NONE, ""} \/ gmod.CREDS_JSON_STR \in {NONE, ""}
    [] OTHER -> FALSE

IsFeature == lastResp.op \in {"ask", "upload", "list"}

\* a service that failed at import serves nothing
NotStarted == ~up => (lastResp = NoResp /\ \A t \in Threads : pc[t].at = "idle")

\* C6 as stated: a feature-path request arriving while a required
\* configuration value is missing ends in an error response (503 for ask, 500
\* for the storage endpoints, or the service fails at startup) and issues no
\* external call.
C6_MissingConfig503Or500 ==
  /\ NotStarted
  /\ (svc = "sync_index" /\ ConfigMissing) => ~up
  /\ (IsFeature /\ ConfigMissing) =>
       /\ lastResp.calls = <<>>
       /\ svc = "ask" => lastResp.status = 503
       /\ svc # "ask" => lastResp.status = 500

\* C6 as amended: as stated, except that the upload of sync.py answers 400
\* when reading the uploaded file fails, which it tries before it looks at
\* the bucket name.
C6_MissingConfigNotServed ==
  /\ NotStarted
  /\ (svc = "sync_index" /\ ConfigMissing) => ~up
  /\ (IsFeature /\ ConfigMissing) =>
       /\ lastResp.calls = <<>>
       /\ svc = "ask" => lastResp.status = 503
       /\ svc # "ask" =>
            \/ lastResp.status = 500
            \/ /\ svc = "sync" /\ lastResp.op = "upload" /\ lastResp.status = 400
               /\ lastResp.content.message = "Failed to read uploaded file"

C6_Witness ==
  /\ IsFeature /\ svc = "ask" /\ lastResp.status = 503
  /\ env["OPENAI_API_KEY"] = "" /\ _client # 0 /\ _index # 0

\* C7: each process-wide handle is constructed at most once, and once it is
\* not None it is never assigned again.
C7_InitializeOnce ==
  [][/\ _client # 0 => _client' = _client
     /\ _index # 0 => _index' = _index
     /\ _storage_service # 0 => _storage_service' = _storage_service]_vars

\* the objects of the bucket that are no folder placeholders
Files == {n \in bucket : n[Len(n)] # "/"}

\* C9: a successful listing returns every object under user-uploads/ exactly
\* once, folder placeholders left out, whatever the number of pages, and the
\* reported count is the number of such objects.
C9_ListReturnsEveryObject ==
  (lastResp.op = "list" /\ lastResp.status = 200) =>
    LET files == lastResp.content.files
    IN  /\ Len(files) = Cardinality(Files)
        /\ {files[i].name : i \in DOMAIN files} = {SubSeq(n, 3, Len(n)) : n \in Files}
        /\ lastResp.content.count = Cardinality(Files)

IsIndexUpload == svc = "sync_index" /\ lastResp.op = "upload"

\* C10: the upload of the sync service tries the insert at most twice, first
\* with the public-read ACL and, only if that fails, once more without it;
\* if an attempt succeeds the response is 200 Success describing the stored
\* object, if both fail it is 500 Error; every request ends in a response.
C10_UploadAtMostTwoInserts ==
  IsIndexUpload =>
    LET c == lastResp.calls
        n == Len(c)
    IN  /\ n <= 2
        /\ \A i \in 1..n : c[i].api = "insert"
        /\ n >= 1 => c[1].args.predefinedAcl = "publicRead"
        /\ n = 1 => c[1].ok
        /\ n = 2 => (~c[1].ok /\ c[2].args.predefinedAcl = ABSENT /\ c[2].args.name = c[1].args.name)
        /\ (n >= 1 /\ c[n].ok) =>
             /\ lastResp.status = 200 /\ lastResp.content.status = "Success"
             /\ lastResp.content.file.name = c[n].args.name
             /\ c[n].args.name = PREFIX \o lastResp.req
             /\ c[n].args.name \in bucket
        /\ (n = 0 \/ ~c[n].ok) =>
             (lastResp.status = 500 /\ lastResp.content.status = "Error")

C10_Witness ==
  /\ IsIndexUpload /\ Len(lastResp.calls) = 2 /\ lastResp.calls[2].ok
  /\ lastResp.status = 200

====
